---- MODULE Spec2Model ----
(***************************************************************************)
(* The composite graph-network architectures of graph_nets/modules.py.     *)
(*                                                                         *)
(* A behaviour is one use of one module: a constructor runs (__init__),    *)
(* then the module is called once on a graph (_build).  Tensors are        *)
(* sequences of rows.  The learned per-entity functions are black boxes    *)
(* of the library, so a row is a term: an input row is an atom naming its  *)
(* field and index, a model applied to a row is the term                   *)
(* <<"apply", model, row>>, and a segmented reduction is the term          *)
(* <<"reduce", reducer, multiset of the reduced rows>>.  Two terms are     *)
(* equal exactly when the same computation was applied to the same         *)
(* inputs, whatever the models compute.                                    *)
(*                                                                         *)
(* blocks.py (EdgeBlock, NodeBlock, GlobalBlock, the broadcast and         *)
(* aggregation primitives) is not among the sources; those definitions     *)
(* follow sections 4.1 to 4.4 of the specification.                        *)
(***************************************************************************)
EXTENDS Integers, Sequences, FiniteSets, TLC

VARIABLES
    pc,      \* "start", "constructed", "init_failed", "called", "returned",
             \* "raised"; "data", "softmax" for _unsorted_segment_softmax alone
    module,  \* the constructed module: its kind and its blocks' options
    init_args, \* the arguments the constructor was called with
    graph,   \* the caller's GraphsTuple, as the caller holds it
    args,    \* the other tensors passed to _build (SelfAttention), or the
             \* arguments of _unsorted_segment_softmax
    out      \* what the call produced: a graph, or the error raised

vars == <<pc, module, init_args, graph, args, out>>

(***************************************************************************)
(* Bounds of the model.                                                    *)
(***************************************************************************)
MaxSize == 4
MaxGraphs == 2
MaxHeads == 2
MaxOptKeys == 2
MaxRows == 3
MaxSegments == 2
MaxLogit == 1

(***************************************************************************)
(* Small helpers.                                                          *)
(***************************************************************************)
RECURSIVE SumSeq(_)
SumSeq(s) == IF Len(s) = 0 THEN 0 ELSE Head(s) + SumSeq(Tail(s))

Repeat(x, c) == [i \in 1..c |-> x]

\* A multiset of the rows data[i], i \in idx: the set of <<row, multiplicity>>.
MSet(data, idx) ==
    { <<t, Cardinality({i \in idx : data[i] = t})>> : t \in {data[i] : i \in idx} }

(***************************************************************************)
(* GraphsTuple.  A field is None or a tensor.                              *)
(***************************************************************************)
None == [is_none |-> TRUE, rows |-> <<>>]
Some(t) == [is_none |-> FALSE, rows |-> t]

Atom(field, i) == <<"in", field, i>>

\* The per-row graph index array derived from n_node / n_edge (0-based).
RECURSIVE GraphIndexFrom(_, _)
GraphIndexFrom(n, k) ==
    IF k > Len(n) THEN <<>> ELSE Repeat(k - 1, n[k]) \o GraphIndexFrom(n, k + 1)

GraphIndex(n) == GraphIndexFrom(n, 1)

\* The number of graphs batched together.
BatchSizes == 1..MaxGraphs

\* The n_node and n_edge of the batches with at most MaxSize nodes and edges.
Shapes ==
    { sh \in UNION { [1..ng -> 0..MaxSize] \X [1..ng -> 0..MaxSize] :
                     ng \in BatchSizes } :
        SumSeq(sh[1]) + SumSeq(sh[2]) <= MaxSize }

\* Every edge joins two nodes of its own graph of the batch.
Contiguous(n_node, n_edge, s, r) ==
    \A i \in 1..SumSeq(n_edge) :
        /\ GraphIndex(n_node)[s[i] + 1] = GraphIndex(n_edge)[i]
        /\ GraphIndex(n_node)[r[i] + 1] = GraphIndex(n_edge)[i]

MakeGraph(n_node, n_edge, s, r) ==
    [edges     |-> Some([i \in 1..SumSeq(n_edge) |-> Atom("edges", i)]),
     nodes     |-> Some([i \in 1..SumSeq(n_node) |-> Atom("nodes", i)]),
     globals   |-> Some([i \in 1..Len(n_node) |-> Atom("globals", i)]),
     receivers |-> Some(r),
     senders   |-> Some(s),
     n_node    |-> n_node,
     n_edge    |-> n_edge]

Indices(n_node, n_edge) == [1..SumSeq(n_edge) -> 0..(SumSeq(n_node) - 1)]

\* The batched graphs the graph-construction collaborator can hand over.
ValidGraphs ==
    UNION { { MakeGraph(sh[1], sh[2], sr[1], sr[2]) :
                sr \in { x \in Indices(sh[1], sh[2]) \X Indices(sh[1], sh[2]) :
                           Contiguous(sh[1], sh[2], x[1], x[2]) } }
            : sh \in Shapes }

\* The fields a caller may leave None.
AbsentSets ==
    { {}, {"edges"}, {"nodes"}, {"globals"}, {"receivers"}, {"senders"},
      {"edges", "globals"}, {"edges", "receivers", "senders"} }

WithAbsent(g, absent) ==
    [g EXCEPT !.edges     = IF "edges" \in absent THEN None ELSE @,
              !.nodes     = IF "nodes" \in absent THEN None ELSE @,
              !.globals   = IF "globals" \in absent THEN None ELSE @,
              !.receivers = IF "receivers" \in absent THEN None ELSE @,
              !.senders   = IF "senders" \in absent THEN None ELSE @]

InputGraphs == { WithAbsent(g, a) : g \in ValidGraphs, a \in AbsentSets }

NoGraph ==
    [edges |-> None, nodes |-> None, globals |-> None, receivers |-> None,
     senders |-> None, n_node |-> <<>>, n_edge |-> <<>>]

\* The outcome of a call: a returned graph, or the error raised.
Ok(g) == [ok |-> TRUE, error |-> "", value |-> g]
Raise(e) == [ok |-> FALSE, error |-> e, value |-> NoGraph]
NoResult == [ok |-> FALSE, error |-> "", value |-> NoGraph]

\* f(r.value) when r returned, r's error otherwise (an exception propagates).
Then(r, F(_)) == IF r.ok THEN F(r.value) ELSE r

(***************************************************************************)
(* Segmented reductions (section 4.1).  Row s of the result reduces the    *)
(* rows of data whose segment id is s - 1; a segment with no rows reduces  *)
(* the empty multiset.                                                     *)
(***************************************************************************)
unsorted_segment_sum == "unsorted_segment_sum"
unsorted_segment_max == "unsorted_segment_max"
Reducers == {unsorted_segment_sum, unsorted_segment_max}

\* The slip of a scatter assignment, where the last row of a segment wins.
SegmentReduce_last_wins(reducer, data, segment_ids, num_segments) ==
    [s \in 1..num_segments |->
        LET members == {i \in 1..Len(data) : segment_ids[i] = s - 1}
        IN  <<"reduce", reducer,
              MSet(data, {i \in members : \A j \in members : j <= i})>>]

SegmentReduce(reducer, data, segment_ids, num_segments) ==
    [s \in 1..num_segments |->
        <<"reduce", reducer,
          MSet(data, {i \in 1..Len(data) : segment_ids[i] = s - 1})>>]

Gather(params, indices) == [i \in 1..Len(indices) |-> params[indices[i] + 1]]

(***************************************************************************)
(* Broadcast primitives (section 4.2) and aggregation primitives (4.3).    *)
(***************************************************************************)
broadcast_sender_nodes_to_edges(g) == Gather(g.nodes.rows, g.senders.rows)

broadcast_receiver_nodes_to_edges(g) == Gather(g.nodes.rows, g.receivers.rows)

broadcast_globals_to_edges(g) == Gather(g.globals.rows, GraphIndex(g.n_edge))

broadcast_globals_to_nodes(g) == Gather(g.globals.rows, GraphIndex(g.n_node))

received_edges_to_nodes(g, reducer) ==
    SegmentReduce(reducer, g.edges.rows, g.receivers.rows, SumSeq(g.n_node))

sent_edges_to_nodes(g, reducer) ==
    SegmentReduce(reducer, g.edges.rows, g.senders.rows, SumSeq(g.n_node))

edges_to_globals(g, reducer) ==
    SegmentReduce(reducer, g.edges.rows, GraphIndex(g.n_edge), Len(g.n_node))

nodes_to_globals(g, reducer) ==
    SegmentReduce(reducer, g.nodes.rows, GraphIndex(g.n_node), Len(g.n_node))

(***************************************************************************)
(* Update blocks (section 4.4).  A block concatenates, row by row, the     *)
(* inputs its flags enable, in the documented order, and applies its model *)
(* to every row.                                                           *)
(***************************************************************************)
Concat(parts) ==
    [i \in 1..Len(parts[1]) |-> <<"concat", [k \in 1..Len(parts) |-> parts[k][i]]>>]

ApplyModel(model, tensor) ==
    [i \in 1..Len(tensor) |-> <<"apply", model, tensor[i]>>]

Part(use, tensor) == IF use THEN <<tensor>> ELSE <<>>

\* The options a block takes when its constructor is not given them.
EdgeBlockDefaults ==
    [use_edges |-> TRUE, use_receiver_nodes |-> TRUE, use_sender_nodes |-> TRUE,
     use_globals |-> TRUE]

NodeBlockDefaults ==
    [use_received_edges |-> TRUE, use_sent_edges |-> TRUE, use_nodes |-> TRUE,
     use_globals |-> TRUE, received_edges_reducer |-> unsorted_segment_sum,
     sent_edges_reducer |-> unsorted_segment_sum]

GlobalBlockDefaults ==
    [use_edges |-> TRUE, use_nodes |-> TRUE, use_globals |-> TRUE,
     edges_reducer |-> unsorted_segment_sum, nodes_reducer |-> unsorted_segment_sum]

\* Block(model_fn, **kwargs): the keyword arguments over the block's defaults.
NewBlock(model, defaults, kwargs) ==
    [k \in {"model"} \cup DOMAIN defaults |->
        IF k = "model" THEN model
        ELSE IF k \in DOMAIN kwargs THEN kwargs[k] ELSE defaults[k]]

\* A block with every input disabled is refused at construction.
EdgeBlockValid(b) ==
    b.use_edges \/ b.use_receiver_nodes \/ b.use_sender_nodes \/ b.use_globals

NodeBlockValid(b) ==
    b.use_received_edges \/ b.use_sent_edges \/ b.use_nodes \/ b.use_globals

GlobalBlockValid(b) == b.use_edges \/ b.use_nodes \/ b.use_globals

EdgeBlockMissing(b, g) ==
    \/ b.use_edges /\ g.edges.is_none
    \/ b.use_receiver_nodes /\ (g.nodes.is_none \/ g.receivers.is_none)
    \/ b.use_sender_nodes /\ (g.nodes.is_none \/ g.senders.is_none)
    \/ b.use_globals /\ g.globals.is_none

EdgeBlock(b, g) ==
    IF EdgeBlockMissing(b, g) THEN Raise("MissingFieldError")
    ELSE Ok([g EXCEPT !.edges = Some(ApplyModel(b.model, Concat(
            Part(b.use_edges, g.edges.rows)
            \o Part(b.use_receiver_nodes, broadcast_receiver_nodes_to_edges(g))
            \o Part(b.use_sender_nodes, broadcast_sender_nodes_to_edges(g))
            \o Part(b.use_globals, broadcast_globals_to_edges(g)))))])

NodeBlockMissing(b, g) ==
    \/ b.use_received_edges /\ (g.edges.is_none \/ g.receivers.is_none)
    \/ b.use_sent_edges /\ (g.edges.is_none \/ g.senders.is_none)
    \/ b.use_nodes /\ g.nodes.is_none
    \/ b.use_globals /\ g.globals.is_none

NodeBlock(b, g) ==
    IF NodeBlockMissing(b, g) THEN Raise("MissingFieldError")
    ELSE Ok([g EXCEPT !.nodes = Some(ApplyModel(b.model, Concat(
            Part(b.use_received_edges,
                 received_edges_to_nodes(g, b.received_edges_reducer))
            \o Part(b.use_sent_edges, sent_edges_to_nodes(g, b.sent_edges_reducer))
            \o Part(b.use_nodes, g.nodes.rows)
            \o Part(b.use_globals, broadcast_globals_to_nodes(g)))))])

GlobalBlockMissing(b, g) ==
    \/ b.use_edges /\ g.edges.is_none
    \/ b.use_nodes /\ g.nodes.is_none
    \/ b.use_globals /\ g.globals.is_none

GlobalBlock(b, g) ==
    IF GlobalBlockMissing(b, g) THEN Raise("MissingFieldError")
    ELSE Ok([g EXCEPT !.globals = Some(ApplyModel(b.model, Concat(
            Part(b.use_edges, edges_to_globals(g, b.edges_reducer))
            \o Part(b.use_nodes, nodes_to_globals(g, b.nodes_reducer))
            \o Part(b.use_globals, g.globals.rows))))])

(***************************************************************************)
(* Option dictionaries of GraphNetwork.  A dict is a function from its     *)
(* keys; an optional dict is None or Some(dict).                           *)
(***************************************************************************)
DEFAULT_EDGE_BLOCK_OPT ==
    [use_edges |-> TRUE, use_receiver_nodes |-> TRUE, use_sender_nodes |-> TRUE,
     use_globals |-> TRUE]

DEFAULT_NODE_BLOCK_OPT ==
    [use_received_edges |-> TRUE, use_sent_edges |-> FALSE, use_nodes |-> TRUE,
     use_globals |-> TRUE]

DEFAULT_GLOBAL_BLOCK_OPT ==
    [use_edges |-> TRUE, use_nodes |-> TRUE, use_globals |-> TRUE]

\* d.get(k, v)
DictGet(d, k, v) == IF k \in DOMAIN d THEN d[k] ELSE v

\* dict(opt.items()) if opt else {}: None and the empty dict are both falsy.
DictOrEmpty(opt) == IF opt.is_none \/ DOMAIN opt.rows = {} THEN <<>> ELSE opt.rows

\* for k, v in defaults.items(): d[k] = d.get(k, v)
SetDefaults(d, defaults) ==
    [k \in DOMAIN d \cup DOMAIN defaults |->
        IF k \in DOMAIN defaults THEN DictGet(d, k, defaults[k]) ELSE d[k]]

\* for key in keys: d[key] = d.get(key, default_reducer)
SetReducers(d, keys, default_reducer) ==
    [k \in DOMAIN d \cup keys |->
        IF k \in keys THEN DictGet(d, k, default_reducer) ELSE d[k]]

make_default_edge_block_opt(edge_block_opt) ==
    SetDefaults(DictOrEmpty(edge_block_opt), DEFAULT_EDGE_BLOCK_OPT)

\* The slip of overwriting the caller's reducers with the constructor's.
make_default_node_block_opt_overwrite(node_block_opt, default_reducer) ==
    LET d == SetDefaults(DictOrEmpty(node_block_opt), DEFAULT_NODE_BLOCK_OPT)
    IN  [k \in DOMAIN d \cup {"received_edges_reducer", "sent_edges_reducer"} |->
            IF k \in {"received_edges_reducer", "sent_edges_reducer"}
            THEN default_reducer ELSE d[k]]

make_default_node_block_opt(node_block_opt, default_reducer) ==
    SetReducers(SetDefaults(DictOrEmpty(node_block_opt), DEFAULT_NODE_BLOCK_OPT),
                {"received_edges_reducer", "sent_edges_reducer"}, default_reducer)

make_default_global_block_opt(global_block_opt, default_reducer) ==
    SetReducers(SetDefaults(DictOrEmpty(global_block_opt), DEFAULT_GLOBAL_BLOCK_OPT),
                {"edges_reducer", "nodes_reducer"}, default_reducer)

(***************************************************************************)
(* Construction outcomes.                                                  *)
(***************************************************************************)
NoModule == [kind |-> "none"]
Built(m) == [ok |-> TRUE, error |-> "", value |-> m]
Refused(e) == [ok |-> FALSE, error |-> e, value |-> NoModule]

(***************************************************************************)
(* InteractionNetwork.                                                     *)
(***************************************************************************)
\* The slip of leaving use_sent_edges to the NodeBlock's own default.
InteractionNetwork_init_sent_default(reducer) ==
    Built([kind |-> "InteractionNetwork",
           edge_block |-> NewBlock("edge_model_fn", EdgeBlockDefaults,
                                   [use_globals |-> FALSE]),
           node_block |-> NewBlock("node_model_fn", NodeBlockDefaults,
                                   [use_globals |-> FALSE,
                                    received_edges_reducer |-> reducer])])

InteractionNetwork_init(reducer) ==
    Built([kind |-> "InteractionNetwork",
           edge_block |-> NewBlock("edge_model_fn", EdgeBlockDefaults,
                                   [use_globals |-> FALSE]),
           node_block |-> NewBlock("node_model_fn", NodeBlockDefaults,
                                   [use_sent_edges |-> FALSE, use_globals |-> FALSE,
                                    received_edges_reducer |-> reducer])])

\* The slip of running the NodeBlock before the EdgeBlock.
InteractionNetwork_build_nodes_first(self, g) ==
    LET edge_block(x) == EdgeBlock(self.edge_block, x)
    IN  Then(NodeBlock(self.node_block, g), edge_block)

InteractionNetwork_build(self, g) ==
    LET node_block(x) == NodeBlock(self.node_block, x)
    IN  Then(EdgeBlock(self.edge_block, g), node_block)

(***************************************************************************)
(* RelationNetwork.                                                        *)
(***************************************************************************)
\* The slip of letting the EdgeBlock read the input's edges.
RelationNetwork_init_use_edges(reducer) ==
    Built([kind |-> "RelationNetwork",
           edge_block |-> NewBlock("edge_model_fn", EdgeBlockDefaults,
                                   [use_edges |-> TRUE, use_receiver_nodes |-> TRUE,
                                    use_sender_nodes |-> TRUE, use_globals |-> FALSE]),
           global_block |-> NewBlock("global_model_fn", GlobalBlockDefaults,
                                     [use_edges |-> TRUE, use_nodes |-> FALSE,
                                      use_globals |-> FALSE,
                                      edges_reducer |-> reducer])])

RelationNetwork_init(reducer) ==
    Built([kind |-> "RelationNetwork",
           edge_block |-> NewBlock("edge_model_fn", EdgeBlockDefaults,
                                   [use_edges |-> FALSE, use_receiver_nodes |-> TRUE,
                                    use_sender_nodes |-> TRUE, use_globals |-> FALSE]),
           global_block |-> NewBlock("global_model_fn", GlobalBlockDefaults,
                                     [use_edges |-> TRUE, use_nodes |-> FALSE,
                                      use_globals |-> FALSE,
                                      edges_reducer |-> reducer])])

\* The slip of returning the blocks' output graph instead of the input's copy.
RelationNetwork_build_whole_output(self, g) ==
    LET global_block(x) == GlobalBlock(self.global_block, x)
    IN  Then(EdgeBlock(self.edge_block, g), global_block)

\* The slip of copying the wrong field of the output graph into globals.
RelationNetwork_build_wrong_field(self, g) ==
    LET global_block(x) == GlobalBlock(self.global_block, x)
        replace(output_graph) == Ok([g EXCEPT !.globals = output_graph.edges])
    IN  Then(Then(EdgeBlock(self.edge_block, g), global_block), replace)

RelationNetwork_build(self, g) ==
    LET global_block(x) == GlobalBlock(self.global_block, x)
        replace(output_graph) == Ok([g EXCEPT !.globals = output_graph.globals])
    IN  Then(Then(EdgeBlock(self.edge_block, g), global_block), replace)

(***************************************************************************)
(* GraphNetwork.                                                           *)
(***************************************************************************)
GraphNetwork_init(reducer, edge_block_opt, node_block_opt, global_block_opt) ==
    LET edge_opt == make_default_edge_block_opt(edge_block_opt)
        node_opt == make_default_node_block_opt(node_block_opt, reducer)
        global_opt == make_default_global_block_opt(global_block_opt, reducer)
        edge_block == NewBlock("edge_model_fn", EdgeBlockDefaults, edge_opt)
        node_block == NewBlock("node_model_fn", NodeBlockDefaults, node_opt)
        global_block == NewBlock("global_model_fn", GlobalBlockDefaults, global_opt)
    IN  IF /\ EdgeBlockValid(edge_block)
           /\ NodeBlockValid(node_block)
           /\ GlobalBlockValid(global_block)
        THEN Built([kind |-> "GraphNetwork", edge_block |-> edge_block,
                    node_block |-> node_block, global_block |-> global_block])
        ELSE Refused("InvalidConfigurationError")

\* The slip of running the NodeBlock before the EdgeBlock.
GraphNetwork_build_nodes_first(self, g) ==
    LET edge_block(x) == EdgeBlock(self.edge_block, x)
        global_block(x) == GlobalBlock(self.global_block, x)
    IN  Then(Then(NodeBlock(self.node_block, g), edge_block), global_block)

GraphNetwork_build(self, g) ==
    LET node_block(x) == NodeBlock(self.node_block, x)
        global_block(x) == GlobalBlock(self.global_block, x)
    IN  Then(Then(EdgeBlock(self.edge_block, g), node_block), global_block)

(***************************************************************************)
(* GraphIndependent.  A model function passed as None becomes the          *)
(* identity; a model applied to a None field fails inside the model.       *)
(***************************************************************************)
Identity == "lambda x: x"

GraphIndependent_init(edge_model_fn, node_model_fn, global_model_fn) ==
    Built([kind |-> "GraphIndependent",
           edge_model   |-> IF edge_model_fn.is_none THEN Identity
                            ELSE edge_model_fn.rows,
           node_model   |-> IF node_model_fn.is_none THEN Identity
                            ELSE node_model_fn.rows,
           global_model |-> IF global_model_fn.is_none THEN Identity
                            ELSE global_model_fn.rows])

\* model(field)
CallModel(model, field) ==
    IF model = Identity THEN field ELSE Some(ApplyModel(model, field.rows))

ModelFails(model, field) == model # Identity /\ field.is_none

\* The slip of feeding the node model the edges.
GraphIndependent_build_crossed(self, g) ==
    IF \/ ModelFails(self.edge_model, g.edges)
       \/ ModelFails(self.node_model, g.edges)
       \/ ModelFails(self.global_model, g.globals)
    THEN Raise("TypeError")
    ELSE Ok([g EXCEPT !.edges = CallModel(self.edge_model, g.edges),
                      !.nodes = CallModel(self.node_model, g.edges),
                      !.globals = CallModel(self.global_model, g.globals)])

GraphIndependent_build(self, g) ==
    IF \/ ModelFails(self.edge_model, g.edges)
       \/ ModelFails(self.node_model, g.nodes)
       \/ ModelFails(self.global_model, g.globals)
    THEN Raise("TypeError")
    ELSE Ok([g EXCEPT !.edges = CallModel(self.edge_model, g.edges),
                      !.nodes = CallModel(self.node_model, g.nodes),
                      !.globals = CallModel(self.global_model, g.globals)])

(***************************************************************************)
(* DeepSets.                                                               *)
(***************************************************************************)
DeepSets_init(reducer) ==
    Built([kind |-> "DeepSets",
           node_block |-> NewBlock("node_model_fn", NodeBlockDefaults,
                                   [use_received_edges |-> FALSE,
                                    use_sent_edges |-> FALSE, use_nodes |-> TRUE,
                                    use_globals |-> TRUE]),
           global_block |-> NewBlock("global_model_fn", GlobalBlockDefaults,
                                     [use_edges |-> FALSE, use_nodes |-> TRUE,
                                      use_globals |-> FALSE,
                                      nodes_reducer |-> reducer])])

\* The slip of running the GlobalBlock before the NodeBlock.
DeepSets_build_globals_first(self, g) ==
    LET node_block(x) == NodeBlock(self.node_block, x)
    IN  Then(GlobalBlock(self.global_block, g), node_block)

DeepSets_build(self, g) ==
    LET global_block(x) == GlobalBlock(self.global_block, x)
    IN  Then(NodeBlock(self.node_block, g), global_block)

(***************************************************************************)
(* CommNet.                                                                *)
(***************************************************************************)
CommNet_init(reducer) ==
    Built([kind |-> "CommNet",
           edge_block |-> NewBlock("edge_model_fn", EdgeBlockDefaults,
                                   [use_edges |-> FALSE, use_receiver_nodes |-> FALSE,
                                    use_sender_nodes |-> TRUE, use_globals |-> FALSE]),
           node_encoder_block |->
               NewBlock("node_encoder_model_fn", NodeBlockDefaults,
                        [use_received_edges |-> FALSE, use_sent_edges |-> FALSE,
                         use_nodes |-> TRUE, use_globals |-> FALSE,
                         received_edges_reducer |-> reducer]),
           node_block |-> NewBlock("node_model_fn", NodeBlockDefaults,
                                   [use_received_edges |-> TRUE,
                                    use_sent_edges |-> FALSE, use_nodes |-> TRUE,
                                    use_globals |-> FALSE,
                                    received_edges_reducer |-> reducer])])

\* The slip of returning the last block's graph instead of the input's copy.
CommNet_build_whole_output(self, g) ==
    LET node_encoder_block(x) == NodeBlock(self.node_encoder_block, x)
        node_block(node_input) == NodeBlock(self.node_block, node_input)
    IN  Then(Then(EdgeBlock(self.edge_block, g), node_encoder_block), node_block)

CommNet_build(self, g) ==
    LET node_encoder_block(x) == NodeBlock(self.node_encoder_block, x)
        node_block(node_input) == NodeBlock(self.node_block, node_input)
        replace(output_graph) == Ok([g EXCEPT !.nodes = output_graph.nodes])
    IN  Then(Then(Then(EdgeBlock(self.edge_block, g), node_encoder_block),
                  node_block), replace)

(***************************************************************************)
(* Attention.  A tensor with a head axis is a record of its number of      *)
(* heads and its rows, each row a sequence with one entry per head; the    *)
(* arithmetic on it is elementwise and stays symbolic.                     *)
(***************************************************************************)
HeadTensor(num_heads, rows) == [num_heads |-> num_heads, rows |-> rows]

\* op applied entry by entry to two tensors of the same shape
Elementwise(op, a, b) ==
    HeadTensor(a.num_heads,
        [i \in 1..Len(a.rows) |->
            [h \in 1..a.num_heads |-> <<op, a.rows[i][h], b.rows[i][h]>>]])

\* op applied to every entry of one tensor
Pointwise(op, a) ==
    HeadTensor(a.num_heads,
        [i \in 1..Len(a.rows) |-> [h \in 1..a.num_heads |-> <<op, a.rows[i][h]>>]])

GatherHeads(t, indices) == HeadTensor(t.num_heads, Gather(t.rows, indices))

\* tf.unsorted_segment_sum / tf.unsorted_segment_max, elementwise per head
SegmentReduceHeads(reducer, t, segment_ids, num_segments) ==
    HeadTensor(t.num_heads,
        [s \in 1..num_segments |->
            [h \in 1..t.num_heads |->
                <<"reduce", reducer,
                  MSet([i \in 1..Len(t.rows) |-> t.rows[i][h]],
                       {i \in 1..Len(t.rows) : segment_ids[i] = s - 1})>>]])

\* The slip of normalising by the largest exponential instead of their sum.
unsorted_segment_softmax_max_normalised(data, segment_ids, num_segments) ==
    LET segment_maxes ==
            SegmentReduceHeads(unsorted_segment_max, data, segment_ids, num_segments)
        maxes == GatherHeads(segment_maxes, segment_ids)
        exp_data == Pointwise("exp", Elementwise("sub", data, maxes))
        segment_max_exp_data ==
            SegmentReduceHeads(unsorted_segment_max, exp_data, segment_ids,
                               num_segments)
    IN  Elementwise("div", exp_data, GatherHeads(segment_max_exp_data, segment_ids))

\* The slip of a plain softmax over all rows, whatever their segment.
unsorted_segment_softmax_unsegmented(data, segment_ids, num_segments) ==
    LET zeros == [i \in 1..Len(segment_ids) |-> 0]
        maxes == GatherHeads(SegmentReduceHeads(unsorted_segment_max, data, zeros, 1),
                             zeros)
        exp_data == Pointwise("exp", Elementwise("sub", data, maxes))
        sum_exp_data ==
            GatherHeads(SegmentReduceHeads(unsorted_segment_sum, exp_data, zeros, 1),
                        zeros)
    IN  Elementwise("div", exp_data, sum_exp_data)

\* The slip of leaving out data -= maxes.
unsorted_segment_softmax_unshifted(data, segment_ids, num_segments) ==
    LET exp_data == Pointwise("exp", data)
        segment_sum_exp_data ==
            SegmentReduceHeads(unsorted_segment_sum, exp_data, segment_ids,
                               num_segments)
    IN  Elementwise("div", exp_data, GatherHeads(segment_sum_exp_data, segment_ids))

unsorted_segment_softmax(data, segment_ids, num_segments) ==
    LET segment_maxes ==
            SegmentReduceHeads(unsorted_segment_max, data, segment_ids, num_segments)
        maxes == GatherHeads(segment_maxes, segment_ids)
        shifted == Elementwise("sub", data, maxes)
        exp_data == Pointwise("exp", shifted)
        segment_sum_exp_data ==
            SegmentReduceHeads(unsorted_segment_sum, exp_data, segment_ids,
                               num_segments)
        sum_exp_data == GatherHeads(segment_sum_exp_data, segment_ids)
    IN  Elementwise("div", exp_data, sum_exp_data)

\* The slip of normalising over all edges of the batch at once.
received_edges_normalizer_whole_batch(edges, g) ==
    unsorted_segment_softmax_unsegmented(edges, g.receivers.rows, SumSeq(g.n_node))

\* normalizer(data=graph.edges, segment_ids=graph.receivers,
\*            num_segments=tf.reduce_sum(graph.n_node))
received_edges_normalizer(edges, g) ==
    unsorted_segment_softmax(edges, g.receivers.rows, SumSeq(g.n_node))

\* The rows of a head tensor as the rows of a graph field.
AsField(t) == Some([i \in 1..Len(t.rows) |-> <<"heads", t.rows[i]>>])

(***************************************************************************)
(* SelfAttention.                                                          *)
(***************************************************************************)
SelfAttention_init == Built([kind |-> "SelfAttention"])

\* The slip of taking the keys at the receivers and the queries at the senders.
SelfAttention_build_swapped(self, node_values, node_keys, node_queries, attention_graph) ==
    IF attention_graph.senders.is_none \/ attention_graph.receivers.is_none
    THEN Raise("MissingFieldError")
    ELSE
    LET receiver_keys == GatherHeads(node_keys, attention_graph.receivers.rows)
        sender_values == GatherHeads(node_values, attention_graph.senders.rows)
        sender_queries == GatherHeads(node_queries, attention_graph.senders.rows)
        attention_weights_logits == Elementwise("dot", receiver_keys, sender_queries)
        normalized_attention_weights ==
            received_edges_normalizer(attention_weights_logits, attention_graph)
        attented_edges ==
            Elementwise("mul", sender_values, normalized_attention_weights)
        aggregated_attended_values ==
            SegmentReduceHeads(unsorted_segment_sum, attented_edges,
                               attention_graph.receivers.rows,
                               SumSeq(attention_graph.n_node))
    IN  Ok([attention_graph EXCEPT !.nodes = AsField(aggregated_attended_values)])

\* The slip of summing the attended values at the nodes that sent them.
SelfAttention_build_at_senders(self, node_values, node_keys, node_queries, attention_graph) ==
    IF attention_graph.senders.is_none \/ attention_graph.receivers.is_none
    THEN Raise("MissingFieldError")
    ELSE
    LET sender_keys == GatherHeads(node_keys, attention_graph.senders.rows)
        sender_values == GatherHeads(node_values, attention_graph.senders.rows)
        receiver_queries == GatherHeads(node_queries, attention_graph.receivers.rows)
        attention_weights_logits == Elementwise("dot", sender_keys, receiver_queries)
        normalized_attention_weights ==
            received_edges_normalizer(attention_weights_logits, attention_graph)
        attented_edges ==
            Elementwise("mul", sender_values, normalized_attention_weights)
        aggregated_attended_values ==
            SegmentReduceHeads(unsorted_segment_sum, attented_edges,
                               attention_graph.senders.rows,
                               SumSeq(attention_graph.n_node))
    IN  Ok([attention_graph EXCEPT !.nodes = AsField(aggregated_attended_values)])

SelfAttention_build(self, node_values, node_keys, node_queries, attention_graph) ==
    IF attention_graph.senders.is_none \/ attention_graph.receivers.is_none
    THEN Raise("MissingFieldError")
    ELSE
    LET sender_keys == GatherHeads(node_keys, attention_graph.senders.rows)
        sender_values == GatherHeads(node_values, attention_graph.senders.rows)
        receiver_queries == GatherHeads(node_queries, attention_graph.receivers.rows)
        attention_weights_logits == Elementwise("dot", sender_keys, receiver_queries)
        normalized_attention_weights ==
            received_edges_normalizer(attention_weights_logits, attention_graph)
        attented_edges ==
            Elementwise("mul", sender_values, normalized_attention_weights)
        aggregated_attended_values ==
            SegmentReduceHeads(unsorted_segment_sum, attented_edges,
                               attention_graph.receivers.rows,
                               SumSeq(attention_graph.n_node))
    IN  Ok([attention_graph EXCEPT !.nodes = AsField(aggregated_attended_values)])

(***************************************************************************)
(* EdgeGAT.                                                                *)
(***************************************************************************)
\* The slip of leaving out the assert on use_sender_nodes.
EdgeGAT_init_unasserted(num_heads, edge_block_opt, global_block_opt) ==
    LET edge_opt == make_default_edge_block_opt(edge_block_opt)
        global_opt ==
            make_default_global_block_opt(global_block_opt, unsorted_segment_sum)
        edge_block == NewBlock("edge_model_fn", EdgeBlockDefaults, edge_opt)
        global_block == NewBlock("global_model_fn", GlobalBlockDefaults, global_opt)
    IN  IF ~(EdgeBlockValid(edge_block) /\ GlobalBlockValid(global_block))
        THEN Refused("InvalidConfigurationError")
        ELSE Built([kind |-> "EdgeGAT", num_heads |-> num_heads,
                    node_model |-> "node_model_fn",
                    edge_block |-> edge_block, global_block |-> global_block])

EdgeGAT_init(num_heads, edge_block_opt, global_block_opt) ==
    LET edge_opt == make_default_edge_block_opt(edge_block_opt)
        global_opt ==
            make_default_global_block_opt(global_block_opt, unsorted_segment_sum)
        edge_block == NewBlock("edge_model_fn", EdgeBlockDefaults, edge_opt)
        global_block == NewBlock("global_model_fn", GlobalBlockDefaults, global_opt)
    IN  IF ~edge_opt["use_sender_nodes"] THEN Refused("AssertionError")
        ELSE IF ~(EdgeBlockValid(edge_block) /\ GlobalBlockValid(global_block))
        THEN Refused("InvalidConfigurationError")
        ELSE Built([kind |-> "EdgeGAT", num_heads |-> num_heads,
                    node_model |-> "node_model_fn",
                    edge_block |-> edge_block, global_block |-> global_block])

\* tf.reshape to [rows, num_heads, size] and tf.split: head h's part of a row
SplitHeads(part, num_heads, tensor) ==
    HeadTensor(num_heads,
        [i \in 1..Len(tensor) |->
            [h \in 1..num_heads |-> <<"slice", part, h, tensor[i]>>]])

\* snt.BatchApply(model) on the concatenation of a and b along the last axis
BatchApplyConcat(model, a, b) ==
    HeadTensor(a.num_heads,
        [i \in 1..Len(a.rows) |->
            [h \in 1..a.num_heads |->
                <<"apply", model, <<"concat", <<a.rows[i][h], b.rows[i][h]>>>>>>]])

\* The slip of summing the attended values at the nodes that sent them.
EdgeGAT_attention_at_senders(self, graph_features, edges) ==
    LET q == SplitHeads("q", self.num_heads,
                 ApplyModel("attention_node_projection_model",
                            graph_features.nodes.rows))
        kv == ApplyModel("attention_edge_projection_model", edges.rows)
        sender_keys == SplitHeads("k", self.num_heads, kv)
        sender_values == SplitHeads("v", self.num_heads, kv)
        receiver_queries == GatherHeads(q, graph_features.receivers.rows)
        attention_weights_logits ==
            BatchApplyConcat("query_key_product_model", sender_keys, receiver_queries)
        normalized_attention_weights ==
            received_edges_normalizer(attention_weights_logits, graph_features)
        attented_edges ==
            Elementwise("mul", sender_values, normalized_attention_weights)
        aggregated_attended_values ==
            SegmentReduceHeads(unsorted_segment_sum, attented_edges,
                               graph_features.senders.rows,
                               SumSeq(graph_features.n_node))
    IN  Some(ApplyModel(self.node_model, AsField(aggregated_attended_values).rows))

EdgeGAT_attention(self, graph_features, edges) ==
    LET q == SplitHeads("q", self.num_heads,
                 ApplyModel("attention_node_projection_model",
                            graph_features.nodes.rows))
        kv == ApplyModel("attention_edge_projection_model", edges.rows)
        sender_keys == SplitHeads("k", self.num_heads, kv)
        sender_values == SplitHeads("v", self.num_heads, kv)
        receiver_queries == GatherHeads(q, graph_features.receivers.rows)
        attention_weights_logits ==
            BatchApplyConcat("query_key_product_model", sender_keys, receiver_queries)
        normalized_attention_weights ==
            received_edges_normalizer(attention_weights_logits, graph_features)
        attented_edges ==
            Elementwise("mul", sender_values, normalized_attention_weights)
        aggregated_attended_values ==
            SegmentReduceHeads(unsorted_segment_sum, attented_edges,
                               graph_features.receivers.rows,
                               SumSeq(graph_features.n_node))
    IN  Some(ApplyModel(self.node_model, AsField(aggregated_attended_values).rows))

\* The slip of projecting the input's edges instead of the EdgeBlock's.
EdgeGAT_build_input_edges(self, graph_features) ==
    LET attend(edge_graph) ==
            IF graph_features.nodes.is_none \/ graph_features.edges.is_none
            THEN Raise("TypeError")
            ELSE IF graph_features.receivers.is_none THEN Raise("MissingFieldError")
            ELSE GlobalBlock(self.global_block,
                    [graph_features EXCEPT
                        !.nodes = EdgeGAT_attention(self, graph_features,
                                                    graph_features.edges),
                        !.edges = edge_graph.edges])
    IN  Then(EdgeBlock(self.edge_block, graph_features), attend)

EdgeGAT_build(self, graph_features) ==
    LET attend(edge_graph) ==
            IF graph_features.nodes.is_none THEN Raise("TypeError")
            ELSE IF graph_features.receivers.is_none THEN Raise("MissingFieldError")
            ELSE GlobalBlock(self.global_block,
                    [graph_features EXCEPT
                        !.nodes = EdgeGAT_attention(self, graph_features,
                                                    edge_graph.edges),
                        !.edges = edge_graph.edges])
    IN  Then(EdgeBlock(self.edge_block, graph_features), attend)

(***************************************************************************)
(* EdgelessGAT.  The constructor takes num_heads, key_size and value_size  *)
(* and stores none of them; _build reads them from self.                   *)
(***************************************************************************)
EdgelessGAT_init(num_heads) ==
    Built([kind |-> "EdgelessGAT",
           attention_projection_model |-> "attention_projection_model",
           query_key_product_model |-> "query_key_product_model",
           node_model |-> "node_model"])

\* self.name, for an attribute the constructor may not have set
HasAttr(self, name) == name \in DOMAIN self

EdgelessGAT_attention(self, graph_features) ==
    LET qkv == ApplyModel(self.attention_projection_model,
                          graph_features.nodes.rows)
        q == SplitHeads("q", self.num_heads, qkv)
        k == SplitHeads("k", self.num_heads, qkv)
        v == SplitHeads("v", self.num_heads, qkv)
        sender_keys == GatherHeads(k, graph_features.senders.rows)
        sender_values == GatherHeads(v, graph_features.senders.rows)
        receiver_queries == GatherHeads(q, graph_features.receivers.rows)
        attention_weights_logits ==
            BatchApplyConcat(self.query_key_product_model, sender_keys,
                             receiver_queries)
        normalized_attention_weights ==
            received_edges_normalizer(attention_weights_logits, graph_features)
        attented_edges ==
            Elementwise("mul", sender_values, normalized_attention_weights)
        aggregated_attended_values ==
            SegmentReduceHeads(unsorted_segment_sum, attented_edges,
                               graph_features.receivers.rows,
                               SumSeq(graph_features.n_node))
    IN  Some(ApplyModel(self.node_model, AsField(aggregated_attended_values).rows))

EdgelessGAT_build(self, graph_features) ==
    IF ~HasAttr(self, "num_heads") THEN Raise("AttributeError")
    ELSE IF graph_features.nodes.is_none THEN Raise("TypeError")
    ELSE IF graph_features.senders.is_none \/ graph_features.receivers.is_none
    THEN Raise("MissingFieldError")
    ELSE Ok([graph_features EXCEPT
                !.nodes = EdgelessGAT_attention(self, graph_features)])

(***************************************************************************)
(* The inputs of the constructors.                                         *)
(***************************************************************************)
Flags(defaults) == DOMAIN defaults

\* Every dict with at most n keys: a boolean for a flag, a reducer for a
\* reducer key.
Dicts(flags, reducer_keys, n) ==
    UNION { { [k \in keys |-> IF k \in flags THEN f[k] ELSE r[k]] :
                f \in [keys \cap flags -> BOOLEAN],
                r \in [keys \cap reducer_keys -> Reducers] }
            : keys \in {k \in SUBSET (flags \cup reducer_keys) :
                          Cardinality(k) <= n} }

EdgeDicts(n) == Dicts(Flags(DEFAULT_EDGE_BLOCK_OPT), {}, n)

NodeDicts(n) ==
    Dicts(Flags(DEFAULT_NODE_BLOCK_OPT),
          {"received_edges_reducer", "sent_edges_reducer"}, n)

GlobalDicts(n) ==
    Dicts(Flags(DEFAULT_GLOBAL_BLOCK_OPT), {"edges_reducer", "nodes_reducer"}, n)

Optional(S) == {None} \cup {Some(d) : d \in S}

NumKeys(opt) == Cardinality(DOMAIN opt.rows)

\* The option triples a caller supplies with at most MaxOptKeys keys in all.
BoundedOptions ==
    { o \in Optional(EdgeDicts(MaxOptKeys)) \X Optional(NodeDicts(MaxOptKeys))
            \X Optional(GlobalDicts(MaxOptKeys)) :
        NumKeys(o[1]) + NumKeys(o[2]) + NumKeys(o[3]) <= MaxOptKeys }

\* The option triples of the modules that are then called on a graph.
CalledOptions ==
    { <<None, None, None>>,
      <<None, Some([use_sent_edges |-> TRUE]), None>>,
      <<Some([use_globals |-> FALSE]), Some([use_globals |-> FALSE]),
        Some([use_globals |-> FALSE])>>,
      <<Some([use_edges |-> FALSE]),
        Some([use_nodes |-> FALSE, received_edges_reducer |-> unsorted_segment_max]),
        Some([use_edges |-> FALSE])>> }

\* The option pairs of the EdgeGAT modules that are then called on a graph.
GATOptions ==
    { <<None, None, None>>,
      <<Some([use_sender_nodes |-> FALSE]), None, None>>,
      <<Some([use_receiver_nodes |-> FALSE, use_globals |-> FALSE]), None,
        Some([use_edges |-> FALSE, nodes_reducer |-> unsorted_segment_max])>> }

ModelFns(name) == {None, Some(name)}

(***************************************************************************)
(* The state machine.                                                      *)
(***************************************************************************)
NoArgs == [num_heads |-> 0]
NoInitArgs == [class |-> "", reducer |-> "", options |-> <<None, None, None>>]
InitArgs(class, reducer, options) ==
    [class |-> class, reducer |-> reducer, options |-> options]

Init ==
    /\ pc = "start"
    /\ module = NoModule
    /\ init_args = NoInitArgs
    /\ graph = NoGraph
    /\ args = NoArgs
    /\ out = NoResult

\* A constructor ran: the module exists, or the constructor raised.
Construct(a, r) ==
    /\ pc' = IF r.ok THEN "constructed" ELSE "init_failed"
    /\ module' = r.value
    /\ init_args' = a
    /\ out' = IF r.ok THEN NoResult ELSE Raise(r.error)
    /\ UNCHANGED <<graph, args>>

\* The slip of updating the caller's graph in place.
InputAfter_in_place(g, r) == IF r.ok THEN r.value ELSE g

\* The graph the caller holds once module(g) ran with result r: replace
\* builds a new GraphsTuple and assigns no field of g.
InputAfter(g, r) == g

\* The caller passes a graph to the module it constructed.
PassGraph ==
    /\ pc = "constructed"
    /\ \E g \in InputGraphs : graph' = g
    /\ pc' = "called"
    /\ UNCHANGED <<module, init_args, args, out>>

\* module(g) ran: it returned a graph, or raised.
Call(g, a, r) ==
    /\ pc' = IF r.ok THEN "returned" ELSE "raised"
    /\ graph' = InputAfter(g, r)
    /\ args' = a
    /\ out' = r
    /\ UNCHANGED <<module, init_args>>

Constructed(kind) == pc = "constructed" /\ module.kind = kind

Called(kind) == pc = "called" /\ module.kind = kind

InteractionNetworkInit ==
    /\ pc = "start"
    /\ \E reducer \in Reducers :
        Construct(InitArgs("InteractionNetwork", reducer, <<None, None, None>>),
                  InteractionNetwork_init(reducer))

InteractionNetworkBuild ==
    /\ Called("InteractionNetwork")
    /\ Call(graph, NoArgs, InteractionNetwork_build(module, graph))

RelationNetworkInit ==
    /\ pc = "start"
    /\ \E reducer \in Reducers :
        Construct(InitArgs("RelationNetwork", reducer, <<None, None, None>>),
                  RelationNetwork_init(reducer))

RelationNetworkBuild ==
    /\ Called("RelationNetwork")
    /\ Call(graph, NoArgs, RelationNetwork_build(module, graph))

GraphNetworkInit(options) ==
    /\ pc = "start"
    /\ \E reducer \in Reducers, o \in options :
        Construct(InitArgs("GraphNetwork", reducer, o),
                  GraphNetwork_init(reducer, o[1], o[2], o[3]))

GraphNetworkBuild ==
    /\ Called("GraphNetwork")
    /\ Call(graph, NoArgs, GraphNetwork_build(module, graph))

GraphIndependentInit ==
    /\ pc = "start"
    /\ \E e \in ModelFns("edge_model_fn"), n \in ModelFns("node_model_fn"),
          u \in ModelFns("global_model_fn") :
        Construct(InitArgs("GraphIndependent", "", <<e, n, u>>),
                  GraphIndependent_init(e, n, u))

GraphIndependentBuild ==
    /\ Called("GraphIndependent")
    /\ Call(graph, NoArgs, GraphIndependent_build(module, graph))

DeepSetsInit ==
    /\ pc = "start"
    /\ \E reducer \in Reducers :
        Construct(InitArgs("DeepSets", reducer, <<None, None, None>>),
                  DeepSets_init(reducer))

DeepSetsBuild ==
    /\ Called("DeepSets")
    /\ Call(graph, NoArgs, DeepSets_build(module, graph))

CommNetInit ==
    /\ pc = "start"
    /\ \E reducer \in Reducers :
        Construct(InitArgs("CommNet", reducer, <<None, None, None>>),
                  CommNet_init(reducer))

CommNetBuild ==
    /\ Called("CommNet")
    /\ Call(graph, NoArgs, CommNet_build(module, graph))

SelfAttentionInit ==
    /\ pc = "start"
    /\ Construct(InitArgs("SelfAttention", "", <<None, None, None>>), SelfAttention_init)

\* The [total_nodes, num_heads, size] tensor of one argument of SelfAttention.
NodeTensor(name, g, num_heads) ==
    HeadTensor(num_heads,
        [i \in 1..SumSeq(g.n_node) |-> [h \in 1..num_heads |-> <<"in", name, i, h>>]])

AttentionArgs(g, num_heads) ==
    [num_heads    |-> num_heads,
     node_values  |-> NodeTensor("node_values", g, num_heads),
     node_keys    |-> NodeTensor("node_keys", g, num_heads),
     node_queries |-> NodeTensor("node_queries", g, num_heads)]

SelfAttentionBuild ==
    /\ Called("SelfAttention")
    /\ \E num_heads \in 1..MaxHeads :
        LET a == AttentionArgs(graph, num_heads)
        IN  Call(graph, a, SelfAttention_build(module, a.node_values, a.node_keys,
                                               a.node_queries, graph))

EdgeGATInit(options) ==
    /\ pc = "start"
    /\ \E num_heads \in 1..MaxHeads, o \in options :
        Construct(InitArgs("EdgeGAT", "", <<o[1], None, o[3]>>),
                  EdgeGAT_init(num_heads, o[1], o[3]))

EdgeGATBuild ==
    /\ Called("EdgeGAT")
    /\ Call(graph, NoArgs, EdgeGAT_build(module, graph))

EdgelessGATInit ==
    /\ pc = "start"
    /\ \E num_heads \in 1..MaxHeads :
        Construct(InitArgs("EdgelessGAT", "", <<None, None, None>>),
                  EdgelessGAT_init(num_heads))

EdgelessGATBuild ==
    /\ Called("EdgelessGAT")
    /\ Call(graph, NoArgs, EdgelessGAT_build(module, graph))

Build ==
    \/ InteractionNetworkBuild
    \/ RelationNetworkBuild
    \/ GraphNetworkBuild
    \/ GraphIndependentBuild
    \/ DeepSetsBuild
    \/ CommNetBuild
    \/ SelfAttentionBuild
    \/ EdgeGATBuild
    \/ EdgelessGATBuild

Next ==
    \/ InteractionNetworkInit
    \/ RelationNetworkInit
    \/ GraphNetworkInit(CalledOptions)
    \/ GraphIndependentInit
    \/ DeepSetsInit
    \/ CommNetInit
    \/ SelfAttentionInit
    \/ EdgeGATInit(GATOptions)
    \/ EdgelessGATInit
    \/ PassGraph
    \/ Build

Spec == Init /\ [][Next]_vars

\* The constructors alone, on every bounded choice of option dictionaries.
NextInit ==
    \/ InteractionNetworkInit
    \/ RelationNetworkInit
    \/ GraphNetworkInit(BoundedOptions)
    \/ GraphIndependentInit
    \/ DeepSetsInit
    \/ CommNetInit
    \/ SelfAttentionInit
    \/ EdgeGATInit({o \in BoundedOptions : o[2].is_none})
    \/ EdgelessGATInit

SpecInit == Init /\ [][NextInit]_vars

(***************************************************************************)
(* _unsorted_segment_softmax on its own, on integer logits with one        *)
(* trailing element.                                                       *)
(***************************************************************************)
Num(x) == <<"num", x>>

\* A [rows, 1] tensor of the logits xs.
LogitTensor(xs) == HeadTensor(1, [i \in 1..Len(xs) |-> <<Num(xs[i])>>])

\* The calls on r rows and n segments: the logits, the segment of each row,
\* and the constant to add to each segment.
SoftmaxArgs(r, n) ==
    { [data |-> LogitTensor(xs), segment_ids |-> ids,
       num_segments |-> n, shift |-> c] :
        xs \in [1..r -> 0..MaxLogit], ids \in [1..r -> 0..(n - 1)],
        c \in [1..n -> {0, MaxLogit}] }

InitSoftmax ==
    /\ pc = "data"
    /\ module = NoModule
    /\ init_args = NoInitArgs
    /\ graph = NoGraph
    /\ \E r \in 0..MaxRows, n \in 1..MaxSegments : args \in SoftmaxArgs(r, n)
    /\ out = NoResult

UnsortedSegmentSoftmax ==
    /\ pc = "data"
    /\ pc' = "softmax"
    /\ out' = [ok |-> TRUE, error |-> "",
               value |-> unsorted_segment_softmax(args.data, args.segment_ids,
                                                  args.num_segments)]
    /\ UNCHANGED <<module, init_args, graph, args>>

NextSoftmax == UnsortedSegmentSoftmax

SpecSoftmax == InitSoftmax /\ [][NextSoftmax]_vars

(***************************************************************************)
(* What the claims speak of.                                               *)
(***************************************************************************)
Returned(kind) == pc = "returned" /\ module.kind = kind

Finished(kind) == pc \in {"returned", "raised"} /\ module.kind = kind

\* The parts concatenated into the input of the model that produced a row:
\* the row is <<"apply", model, <<"concat", parts>>>>.
ModelOf(row) == row[2]
ModelInput(row) == row[3][2]

TotalNodes(g) == SumSeq(g.n_node)
TotalEdges(g) == SumSeq(g.n_edge)
NumGraphs(g) == Len(g.n_node)

ReceivedBy(g, j) == {e \in 1..TotalEdges(g) : g.receivers.rows[e] = j - 1}
SentBy(g, j) == {e \in 1..TotalEdges(g) : g.senders.rows[e] = j - 1}
EdgesOf(g, k) == {e \in 1..TotalEdges(g) : GraphIndex(g.n_edge)[e] = k - 1}
NodesOf(g, k) == {j \in 1..TotalNodes(g) : GraphIndex(g.n_node)[j] = k - 1}

Reduction(reducer, rows, idx) == <<"reduce", reducer, MSet(rows, idx)>>

HasRows(field, n) == field.is_none \/ Len(field.rows) = n

\* C1: every composite returns a graph with the senders, receivers, n_node and
\* n_edge of its input, whose present edges, nodes and globals have
\* total_edges, total_nodes and num_graphs rows.
C1_StructurePreserved ==
    pc = "returned" =>
        /\ out.value.senders = graph.senders
        /\ out.value.receivers = graph.receivers
        /\ out.value.n_node = graph.n_node
        /\ out.value.n_edge = graph.n_edge
        /\ HasRows(out.value.edges, TotalEdges(graph))
        /\ HasRows(out.value.nodes, TotalNodes(graph))
        /\ HasRows(out.value.globals, NumGraphs(graph))

C1_Witness ==
    /\ Returned("SelfAttention")
    /\ NumGraphs(graph) = 2
    /\ TotalEdges(graph) = 2
    /\ ~out.value.nodes.is_none

\* C2: GraphNetwork runs EdgeBlock, NodeBlock, GlobalBlock in that order on one
\* threaded graph: the edges are computed from the input graph, the nodes from
\* the graph carrying the updated edges, the globals from the graph carrying
\* the updated edges and nodes, and the result carries all three.
C2_GraphNetworkOrder ==
    Returned("GraphNetwork") =>
        LET o == out.value
            nb == module.node_block
            gb == module.global_block
            with_edges == [graph EXCEPT !.edges = o.edges]
            with_nodes == [with_edges EXCEPT !.nodes = o.nodes]
        IN  /\ ~o.edges.is_none /\ ~o.nodes.is_none /\ ~o.globals.is_none
            /\ o.edges = EdgeBlock(module.edge_block, graph).value.edges
            /\ o.nodes = NodeBlock(nb, with_edges).value.nodes
            /\ o.globals = GlobalBlock(gb, with_nodes).value.globals
            /\ \A e \in 1..TotalEdges(graph) :
                    ModelOf(o.edges.rows[e]) = "edge_model_fn"
            /\ \A j \in 1..TotalNodes(graph) :
                /\ ModelOf(o.nodes.rows[j]) = "node_model_fn"
                /\ nb.use_received_edges =>
                     ModelInput(o.nodes.rows[j])[1] =
                        Reduction(nb.received_edges_reducer, o.edges.rows,
                                  ReceivedBy(graph, j))
            /\ \A k \in 1..NumGraphs(graph) :
                /\ ModelOf(o.globals.rows[k]) = "global_model_fn"
                /\ gb.use_edges =>
                     ModelInput(o.globals.rows[k])[1] =
                        Reduction(gb.edges_reducer, o.edges.rows, EdgesOf(graph, k))
                /\ gb.use_nodes =>
                     ModelInput(o.globals.rows[k])[IF gb.use_edges THEN 2 ELSE 1] =
                        Reduction(gb.nodes_reducer, o.nodes.rows, NodesOf(graph, k))

C2_Witness ==
    /\ Returned("GraphNetwork")
    /\ init_args.options = <<None, None, None>>
    /\ \E j \in 1..TotalNodes(graph) : Cardinality(ReceivedBy(graph, j)) = 2
    /\ ModelInput(out.value.nodes.rows[1])[1] # 
          Reduction(module.node_block.received_edges_reducer, graph.edges.rows,
                    ReceivedBy(graph, 1))

\* The dict a caller supplied: None supplies no key.
Supplied(opt) == IF opt.is_none THEN <<>> ELSE opt.rows

NoOptions == <<None, None, None>>

AllTrue(block, flags) == \A k \in flags : block[k] = TRUE

\* C3 (as claimed): a GraphNetwork constructed with no options has every use_*
\* flag of its EdgeBlock, NodeBlock and GlobalBlock true.
C3_FullyConnectedByDefault ==
    (pc = "constructed" /\ module.kind = "GraphNetwork"
        /\ init_args.options = NoOptions) =>
        /\ AllTrue(module.edge_block, {"use_edges", "use_receiver_nodes",
                                       "use_sender_nodes", "use_globals"})
        /\ AllTrue(module.node_block, {"use_received_edges", "use_sent_edges",
                                       "use_nodes", "use_globals"})
        /\ AllTrue(module.global_block, {"use_edges", "use_nodes", "use_globals"})

\* The value key k of a block must have: the caller's when supplied, the
\* module default of a flag or the constructor's reducer otherwise.
Merged(block, supplied, defaults, reducer_keys, reducer) ==
    /\ \A k \in DOMAIN supplied : block[k] = supplied[k]
    /\ \A k \in DOMAIN defaults \ DOMAIN supplied : block[k] = defaults[k]
    /\ \A k \in reducer_keys \ DOMAIN supplied : block[k] = reducer

\* C4: in GraphNetwork's option merging a supplied key reaches the block with
\* the caller's value (an explicit False included), a use_* key not supplied
\* takes the module default, and a reducer key not supplied takes the
\* constructor's reducer.
C4_OptionMerging ==
    (pc = "constructed" /\ module.kind = "GraphNetwork") =>
        /\ Merged(module.edge_block, Supplied(init_args.options[1]),
                  DEFAULT_EDGE_BLOCK_OPT, {}, init_args.reducer)
        /\ Merged(module.node_block, Supplied(init_args.options[2]),
                  DEFAULT_NODE_BLOCK_OPT,
                  {"received_edges_reducer", "sent_edges_reducer"},
                  init_args.reducer)
        /\ Merged(module.global_block, Supplied(init_args.options[3]),
                  DEFAULT_GLOBAL_BLOCK_OPT, {"edges_reducer", "nodes_reducer"},
                  init_args.reducer)

C4_Witness ==
    /\ pc = "constructed" /\ module.kind = "GraphNetwork"
    /\ init_args.reducer = unsorted_segment_sum
    /\ init_args.options =
          <<Some([use_edges |-> FALSE]),
            Some([received_edges_reducer |-> unsorted_segment_max]), None>>
    /\ module.edge_block.use_edges = FALSE
    /\ module.node_block.received_edges_reducer = unsorted_segment_max
    /\ module.node_block.sent_edges_reducer = unsorted_segment_sum

Present(g, fields) ==
    /\ "edges" \in fields => ~g.edges.is_none
    /\ "nodes" \in fields => ~g.nodes.is_none
    /\ "globals" \in fields => ~g.globals.is_none
    /\ "receivers" \in fields => ~g.receivers.is_none
    /\ "senders" \in fields => ~g.senders.is_none

\* model applied to the concatenation of parts
Applied(model, parts) == <<"apply", model, <<"concat", parts>>>>

\* The input rows a term was computed from.
RECURSIVE Atoms(_)
Atoms(t) ==
    CASE t[1] = "in" -> {t}
      [] t[1] = "apply" -> Atoms(t[3])
      [] t[1] = "concat" -> UNION {Atoms(t[2][k]) : k \in 1..Len(t[2])}
      [] t[1] = "heads" -> UNION {Atoms(t[2][k]) : k \in 1..Len(t[2])}
      [] t[1] = "reduce" -> UNION {Atoms(p[1]) : p \in t[3]}
      [] t[1] = "exp" -> Atoms(t[2])
      [] t[1] = "slice" -> Atoms(t[4])
      [] OTHER -> Atoms(t[2]) \cup Atoms(t[3])

\* The input fields a tensor was computed from.
FieldsIn(rows) == {a[2] : a \in UNION {Atoms(rows[i]) : i \in 1..Len(rows)}}

\* C5: RelationNetwork returns its input with only globals replaced; edges and
\* globals of the input may be None; the new globals are the GlobalBlock's
\* reduction, per graph, of edges computed from receiver and sender nodes.
C5_RelationNetworkGlobalsOnly ==
    Finished("RelationNetwork") =>
        /\ Present(graph, {"nodes", "senders", "receivers"}) => pc = "returned"
        /\ pc = "returned" =>
            LET o == out.value
                relation ==
                    [e \in 1..TotalEdges(graph) |->
                        Applied("edge_model_fn",
                            <<graph.nodes.rows[graph.receivers.rows[e] + 1],
                              graph.nodes.rows[graph.senders.rows[e] + 1]>>)]
            IN  /\ o.edges = graph.edges
                /\ o.nodes = graph.nodes
                /\ o.senders = graph.senders
                /\ o.receivers = graph.receivers
                /\ o.n_node = graph.n_node
                /\ o.n_edge = graph.n_edge
                /\ ~o.globals.is_none
                /\ Len(o.globals.rows) = NumGraphs(graph)
                /\ \A k \in 1..NumGraphs(graph) :
                        o.globals.rows[k] =
                            Applied("global_model_fn",
                                <<Reduction(init_args.reducer, relation,
                                            EdgesOf(graph, k))>>)

C5_Witness ==
    /\ Returned("RelationNetwork")
    /\ graph.edges.is_none /\ graph.globals.is_none
    /\ out.value.edges.is_none /\ ~out.value.globals.is_none
    /\ \E k \in 1..NumGraphs(graph) : Cardinality(EdgesOf(graph, k)) = 2

\* C6: CommNet returns its input with only nodes replaced; the edges it
\* creates stay internal; the input's edges and globals, which may be None,
\* do not reach the new nodes.
C6_CommNetNodesOnly ==
    Finished("CommNet") =>
        /\ Present(graph, {"nodes", "senders", "receivers"}) => pc = "returned"
        /\ pc = "returned" =>
            LET o == out.value
                created ==
                    [e \in 1..TotalEdges(graph) |->
                        Applied("edge_model_fn",
                            <<graph.nodes.rows[graph.senders.rows[e] + 1]>>)]
            IN  /\ o.edges = graph.edges
                /\ o.globals = graph.globals
                /\ ~o.nodes.is_none
                /\ FieldsIn(o.nodes.rows) \subseteq {"nodes"}
                /\ \A j \in 1..TotalNodes(graph) :
                        o.nodes.rows[j] =
                            Applied("node_model_fn",
                                <<Reduction(init_args.reducer, created,
                                            ReceivedBy(graph, j)),
                                  Applied("node_encoder_model_fn",
                                          <<graph.nodes.rows[j]>>)>>)

C6_Witness ==
    /\ Returned("CommNet")
    /\ ~graph.edges.is_none /\ ~graph.globals.is_none
    /\ out.value.edges = graph.edges
    /\ \E j \in 1..TotalNodes(graph) : Cardinality(ReceivedBy(graph, j)) = 2

C6_WitnessAbsent ==
    /\ Returned("CommNet")
    /\ graph.edges.is_none /\ graph.globals.is_none

\* C7: InteractionNetwork never updates globals, which may be None, and
\* computes the nodes from the edges its EdgeBlock has already updated.
C7_InteractionNetworkGlobals ==
    Finished("InteractionNetwork") =>
        /\ Present(graph, {"nodes", "edges", "senders", "receivers"}) =>
                pc = "returned"
        /\ pc = "returned" =>
            LET o == out.value
            IN  /\ o.globals = graph.globals
                /\ \A e \in 1..TotalEdges(graph) :
                        ModelOf(o.edges.rows[e]) = "edge_model_fn"
                /\ \A j \in 1..TotalNodes(graph) :
                        ModelInput(o.nodes.rows[j])[1] =
                            Reduction(init_args.reducer, o.edges.rows,
                                      ReceivedBy(graph, j))

C7_Witness ==
    /\ Returned("InteractionNetwork")
    /\ graph.globals.is_none /\ out.value.globals.is_none
    /\ \E j \in 1..TotalNodes(graph) : Cardinality(ReceivedBy(graph, j)) = 2

\* C8 (as claimed): the NodeBlock of InteractionNetwork takes received edges
\* only: the node model's input is solely the reduction of the updated edges
\* the node receives.
C8_ReceivedEdgesOnly ==
    (module.kind = "InteractionNetwork") =>
        /\ module.node_block.use_received_edges
        /\ ~module.node_block.use_sent_edges
        /\ ~module.node_block.use_nodes
        /\ ~module.node_block.use_globals
        /\ pc = "returned" =>
            \A j \in 1..TotalNodes(graph) :
                ModelInput(out.value.nodes.rows[j]) =
                    <<Reduction(init_args.reducer, out.value.edges.rows,
                                ReceivedBy(graph, j))>>

\* C8 (amended): the NodeBlock of InteractionNetwork takes the received edges
\* and the node's own previous features, with sent edges and globals
\* disabled: the node model's input is the reduction of the updated edges the
\* node receives, followed by the node's input features.
C8_ReceivedEdgesAndNodes ==
    (module.kind = "InteractionNetwork") =>
        /\ module.node_block.use_received_edges
        /\ ~module.node_block.use_sent_edges
        /\ module.node_block.use_nodes
        /\ ~module.node_block.use_globals
        /\ pc = "returned" =>
            \A j \in 1..TotalNodes(graph) :
                ModelInput(out.value.nodes.rows[j]) =
                    <<Reduction(init_args.reducer, out.value.edges.rows,
                                ReceivedBy(graph, j)),
                      graph.nodes.rows[j]>>

C8_Witness ==
    /\ Returned("InteractionNetwork")
    /\ TotalNodes(graph) = 2
    /\ \E j \in 1..2 : Cardinality(ReceivedBy(graph, j)) = 1
                       /\ Cardinality(SentBy(graph, j)) = 0

\* C9: DeepSets uses no edge or connectivity data, which may all be None: the
\* nodes are computed from the input nodes and the broadcast input globals,
\* the globals from the reduction of those updated nodes only.
C9_DeepSets ==
    Finished("DeepSets") =>
        /\ Present(graph, {"nodes", "globals"}) => pc = "returned"
        /\ pc = "returned" =>
            LET o == out.value
            IN  /\ o.edges = graph.edges
                /\ o.senders = graph.senders
                /\ o.receivers = graph.receivers
                /\ \A j \in 1..TotalNodes(graph) :
                        o.nodes.rows[j] =
                            Applied("node_model_fn",
                                <<graph.nodes.rows[j],
                                  graph.globals.rows[GraphIndex(graph.n_node)[j] + 1]>>)
                /\ \A k \in 1..NumGraphs(graph) :
                        o.globals.rows[k] =
                            Applied("global_model_fn",
                                <<Reduction(init_args.reducer, o.nodes.rows,
                                            NodesOf(graph, k))>>)

C9_Witness ==
    /\ Returned("DeepSets")
    /\ graph.edges.is_none /\ graph.senders.is_none /\ graph.receivers.is_none
    /\ NumGraphs(graph) = 2
    /\ Cardinality(NodesOf(graph, 2)) = 2

\* The field a model of GraphIndependent must produce from its own input.
Independently(passed, model, input, output) ==
    IF passed.is_none THEN output = input
    ELSE /\ ~output.is_none
         /\ Len(output.rows) = Len(input.rows)
         /\ \A i \in 1..Len(input.rows) :
                /\ output.rows[i] = <<"apply", model, input.rows[i]>>
                /\ Atoms(output.rows[i]) = {input.rows[i]}

\* C10: GraphIndependent applies each model to its own field only, row by
\* row, and a model function passed as None leaves its field as it was.
C10_GraphIndependent ==
    Returned("GraphIndependent") =>
        /\ Independently(init_args.options[1], "edge_model_fn",
                         graph.edges, out.value.edges)
        /\ Independently(init_args.options[2], "node_model_fn",
                         graph.nodes, out.value.nodes)
        /\ Independently(init_args.options[3], "global_model_fn",
                         graph.globals, out.value.globals)

C10_Witness ==
    /\ Returned("GraphIndependent")
    /\ ~init_args.options[1].is_none
    /\ ~init_args.options[2].is_none
    /\ init_args.options[3].is_none
    /\ TotalEdges(graph) = 2 /\ TotalNodes(graph) = 2
    /\ out.value.globals = graph.globals
\* The sum over no rows: the zero of unsorted_segment_sum's empty segments.
IsZero(t) == t = <<"reduce", unsorted_segment_sum, {}>>

\* The entries, one per head, of node j's row in a [nodes, heads] field.
HeadsOf(field, j) == field.rows[j][2]

\* C11: in SelfAttention a node that receives no edge gets an all-zero output
\* row, for every head, whatever the values, keys and queries of the call
\* and whatever the other nodes and edges are.
C11_IsolatedNodeZero ==
    Returned("SelfAttention") =>
        \A j \in 1..TotalNodes(graph) :
            ReceivedBy(graph, j) = {} =>
                /\ Len(HeadsOf(out.value.nodes, j)) = args.num_heads
                /\ \A h \in 1..args.num_heads :
                        IsZero(HeadsOf(out.value.nodes, j)[h])

C11_Witness ==
    /\ Returned("SelfAttention")
    /\ args.num_heads = 2
    /\ \E j, i \in 1..TotalNodes(graph) :
            /\ ReceivedBy(graph, j) = {} /\ SentBy(graph, j) # {}
            /\ ReceivedBy(graph, i) # {}
            /\ IsZero(HeadsOf(out.value.nodes, j)[2])
            /\ ~IsZero(HeadsOf(out.value.nodes, i)[2])
(***************************************************************************)
(* The value of a softmax term on integer logits, in exact arithmetic.  An *)
(* exponential e^k is its exponent k; a sum of exponentials is the set of  *)
(* <<exponent, how many>>; a quotient e^a / sum is kept with the largest   *)
(* exponent of the sum brought to 0, so that equal quotients are equal     *)
(* values.                                                                 *)
(***************************************************************************)
MaxOf(S) == CHOOSE x \in S : \A y \in S : y <= x

\* Stands for the most negative float, the max of an empty segment.
Lowest == 0 - 1000

RECURSIVE Number(_)
Number(t) ==
    CASE t[1] = "num" -> t[2]
      [] t[1] = "sub" -> Number(t[2]) - Number(t[3])
      [] t[1] = "reduce" ->
            IF t[3] = {} THEN Lowest ELSE MaxOf({Number(p[1]) : p \in t[3]})
      [] OTHER -> Lowest

RECURSIVE CountAll(_)
CountAll(M) ==
    IF M = {} THEN 0
    ELSE LET p == CHOOSE q \in M : TRUE IN p[2] + CountAll(M \ {p})

\* The exponent of an "exp" term.
Exponent(t) == Number(t[2])

\* The value of a reduction of "exp" terms.
ExpReduction(t) ==
    LET ks == {Exponent(p[1]) : p \in t[3]}
    IN  IF t[2] = unsorted_segment_sum
        THEN { <<k, CountAll({p \in t[3] : Exponent(p[1]) = k})>> : k \in ks }
        ELSE IF ks = {} THEN {<<Lowest, 1>>} ELSE {<<MaxOf(ks), 1>>}

\* The value of a "div" term: e^exponent over the sum of exponentials.
Quotient(t) ==
    LET sum == ExpReduction(t[3])
        m == IF sum = {} THEN 0 ELSE MaxOf({p[1] : p \in sum})
    IN  [exponent |-> Exponent(t[2]) - m,
         over |-> { <<p[1] - m, p[2]>> : p \in sum }]

OneOver(k) == [exponent |-> 0, over |-> {<<0, k>>}]

\* The values of a [rows, 1] tensor of "div" terms.
Quotients(t) == [i \in 1..Len(t.rows) |-> Quotient(t.rows[i][1])]

Logit(i) == args.data.rows[i][1][2]
Members(s) == {i \in 1..Len(args.segment_ids) : args.segment_ids[i] = s}
Segments == 0..(args.num_segments - 1)

\* The quotients q[i], i \in idx, add up to 1: they share one divisor, which
\* is the sum of their own numerators.
SumToOne(q, idx) ==
    \A i \in idx :
        q[i].over = { <<k, Cardinality({j \in idx : q[j].exponent = k})>> :
                        k \in {q[j].exponent : j \in idx} }

\* C12: _unsorted_segment_softmax gives each of the k members of a segment
\* whose logits are all equal the weight 1/k ([0, 0, 0] in one segment gives
\* [1/3, 1/3, 1/3]), and the weights of every non-empty segment sum to 1.
C12_EqualLogitsEqualWeight ==
    (pc = "softmax") =>
        LET q == Quotients(out.value)
        IN  \A s \in Segments :
                /\ SumToOne(q, Members(s))
                /\ (\A i, j \in Members(s) : Logit(i) = Logit(j)) =>
                        \A i \in Members(s) :
                            q[i] = OneOver(Cardinality(Members(s)))

C12_Witness ==
    /\ pc = "softmax"
    /\ args.num_segments = 1
    /\ Len(args.segment_ids) = 3
    /\ \A i \in 1..3 : Logit(i) = 0
    /\ Quotients(out.value) = <<OneOver(3), OneOver(3), OneOver(3)>>
\* data with c[s] added to every logit of segment s
Shifted(data, segment_ids, c) ==
    LogitTensor([i \in 1..Len(data.rows) |->
                    data.rows[i][1][2] + c[segment_ids[i] + 1]])

\* C13: _unsorted_segment_softmax is shift-invariant per segment: adding a
\* constant c[s] to every logit of segment s, for any choice of constants,
\* leaves every output row as it was.
C13_ShiftInvariant ==
    (pc = "softmax") =>
        Quotients(unsorted_segment_softmax(
                      Shifted(args.data, args.segment_ids, args.shift),
                      args.segment_ids, args.num_segments))
            = Quotients(out.value)

C13_Witness ==
    /\ pc = "softmax"
    /\ args.num_segments = 2
    /\ args.shift[1] # args.shift[2]
    /\ \E i, j \in Members(0) : Logit(i) # Logit(j)
    /\ Members(1) # {}
    /\ Shifted(args.data, args.segment_ids, args.shift) # args.data
    /\ \E i \in Members(0) : Quotients(out.value)[i] = [exponent |-> 0 - 1,
                                    over |-> {<<0, 1>>, <<0 - 1, 1>>}]
\* An EdgeGAT constructor has run, with or without success.
EdgeGATConstructed ==
    init_args.class = "EdgeGAT" /\ pc \in {"constructed", "init_failed"}

\* The caller's edge_block_opt sets use_sender_nodes to false.
SenderNodesDisabled ==
    LET opt == Supplied(init_args.options[1])
    IN  "use_sender_nodes" \in DOMAIN opt /\ ~opt["use_sender_nodes"]

\* The caller's global_block_opt disables every input of the GlobalBlock.
GlobalInputsDisabled ==
    LET opt == Supplied(init_args.options[3])
    IN  \A k \in {"use_edges", "use_nodes", "use_globals"} :
            k \in DOMAIN opt /\ ~opt[k]

\* The constructor raised error: no module exists and no graph was passed.
FailedWith(error) ==
    /\ pc = "init_failed"
    /\ out.error = error
    /\ module = NoModule
    /\ graph = NoGraph

\* C14 (as claimed): constructing EdgeGAT with use_sender_nodes false fails
\* with an invalid-configuration error before any block is built and before
\* any graph is passed; with use_sender_nodes true or unspecified
\* construction succeeds.
C14_SenderNodesInvalidConfiguration ==
    EdgeGATConstructed =>
        IF SenderNodesDisabled THEN FailedWith("InvalidConfigurationError")
        ELSE pc = "constructed"

\* C14 (amended): constructing EdgeGAT with use_sender_nodes false fails on
\* the constructor's assert, with an AssertionError, before any block is
\* built and before any graph is passed; with use_sender_nodes true or
\* unspecified the assert passes, and construction succeeds unless the
\* GlobalBlock's options disable every one of its inputs, which the
\* GlobalBlock refuses with an invalid-configuration error.
C14_SenderNodesAsserted ==
    EdgeGATConstructed =>
        IF SenderNodesDisabled THEN FailedWith("AssertionError")
        ELSE IF GlobalInputsDisabled THEN FailedWith("InvalidConfigurationError")
        ELSE pc = "constructed" /\ module.kind = "EdgeGAT"
                /\ module.edge_block.use_sender_nodes

C14_Witness ==
    /\ EdgeGATConstructed
    /\ init_args.options[1] =
            Some([use_sender_nodes |-> FALSE, use_edges |-> FALSE])
    /\ FailedWith("AssertionError")
\* The call raised a missing-field error and returned no graph.
RaisedMissingField ==
    /\ pc = "raised"
    /\ out.error = "MissingFieldError"
    /\ out.value = NoGraph

\* A finished call raised the missing-field error exactly when one of the
\* required fields was absent.
RequiresExactly(kind, required) ==
    Finished(kind) =>
        IF Present(graph, required) THEN pc = "returned" ELSE RaisedMissingField

\* C15: RelationNetwork and CommNet raise a missing-field error, and return
\* no graph, when nodes, receivers or senders is absent, InteractionNetwork
\* when nodes, edges, receivers or senders is absent; the fields they do not
\* use (edges and globals, resp. globals) never cause the error.
C15_MissingFieldRaises ==
    /\ RequiresExactly("RelationNetwork", {"nodes", "receivers", "senders"})
    /\ RequiresExactly("CommNet", {"nodes", "receivers", "senders"})
    /\ RequiresExactly("InteractionNetwork",
                       {"nodes", "edges", "receivers", "senders"})

C15_Witness ==
    /\ Finished("InteractionNetwork")
    /\ graph.edges.is_none /\ graph.receivers.is_none /\ graph.senders.is_none
    /\ ~graph.nodes.is_none /\ TotalNodes(graph) = 2
    /\ RaisedMissingField
Offset(n, k) == SumSeq(SubSeq(n, 1, k - 1))

\* Rows off + 1 .. off + len of a field, None staying None.
SubField(field, off, len) ==
    IF field.is_none THEN None ELSE Some([i \in 1..len |-> field.rows[off + i]])

\* Graph k of the batch g on its own: its rows, its indices counted from its
\* own first node.
Unbatched(g, k) ==
    LET n0 == Offset(g.n_node, k)
        e0 == Offset(g.n_edge, k)
        reindex(field) ==
            IF field.is_none THEN None
            ELSE Some([i \in 1..g.n_edge[k] |-> field.rows[e0 + i] - n0])
    IN  [edges     |-> SubField(g.edges, e0, g.n_edge[k]),
         nodes     |-> SubField(g.nodes, n0, g.n_node[k]),
         globals   |-> SubField(g.globals, k - 1, 1),
         receivers |-> reindex(g.receivers),
         senders   |-> reindex(g.senders),
         n_node    |-> <<g.n_node[k]>>,
         n_edge    |-> <<g.n_edge[k]>>]

\* The rows of graph k in a [total_nodes, num_heads, size] argument.
UnbatchedTensor(t, g, k) ==
    HeadTensor(t.num_heads,
        [i \in 1..g.n_node[k] |-> t.rows[Offset(g.n_node, k) + i]])

\* The module self called on graph k of the batch g alone.
RunAlone(self, a, g, k) ==
    CASE self.kind = "GraphNetwork" -> GraphNetwork_build(self, Unbatched(g, k))
      [] self.kind = "InteractionNetwork" ->
            InteractionNetwork_build(self, Unbatched(g, k))
      [] self.kind = "RelationNetwork" ->
            RelationNetwork_build(self, Unbatched(g, k))
      [] self.kind = "DeepSets" -> DeepSets_build(self, Unbatched(g, k))
      [] self.kind = "CommNet" -> CommNet_build(self, Unbatched(g, k))
      [] self.kind = "SelfAttention" ->
            SelfAttention_build(self, UnbatchedTensor(a.node_values, g, k),
                                UnbatchedTensor(a.node_keys, g, k),
                                UnbatchedTensor(a.node_queries, g, k),
                                Unbatched(g, k))

Batchable ==
    {"GraphNetwork", "InteractionNetwork", "RelationNetwork", "DeepSets",
     "CommNet", "SelfAttention"}

\* C17: batch independence: GraphNetwork, InteractionNetwork,
\* RelationNetwork, DeepSets, CommNet and SelfAttention, run on a batch,
\* yield for each graph of the batch exactly the edges, nodes and globals
\* rows that the same module yields on that graph alone.
C17_BatchIndependence ==
    (pc = "returned" /\ module.kind \in Batchable) =>
        \A k \in 1..NumGraphs(graph) :
            LET alone == RunAlone(module, args, graph, k)
                o == out.value
            IN  /\ alone.ok
                /\ alone.value.edges =
                        SubField(o.edges, Offset(graph.n_edge, k), graph.n_edge[k])
                /\ alone.value.nodes =
                        SubField(o.nodes, Offset(graph.n_node, k), graph.n_node[k])
                /\ alone.value.globals = SubField(o.globals, k - 1, 1)

\* Two graphs, each with an edge.
TwoGraphsWithEdges ==
    /\ NumGraphs(graph) = 2
    /\ graph.n_edge[1] >= 1 /\ graph.n_edge[2] >= 1

C17_Witness ==
    /\ Returned("GraphNetwork")
    /\ init_args.options = NoOptions
    /\ TwoGraphsWithEdges
    /\ out.value.globals.rows[1] # out.value.globals.rows[2]

C17_WitnessAttention ==
    /\ Returned("SelfAttention")
    /\ TwoGraphsWithEdges
    /\ ~IsZero(HeadsOf(out.value.nodes, 2)[1])
\* C18 (as claimed): an EdgelessGAT constructed with its projection models,
\* num_heads, key_size and value_size, called on a graph with nodes, senders
\* and receivers, completes without error and returns the input graph with
\* only nodes replaced, by the node model's output.
C18_EdgelessGATCompletes ==
    (Finished("EdgelessGAT") /\ Present(graph, {"nodes", "senders", "receivers"})) =>
        /\ pc = "returned"
        /\ out.value = [graph EXCEPT !.nodes = out.value.nodes]
        /\ ~out.value.nodes.is_none
        /\ \A j \in 1..TotalNodes(graph) :
                ModelOf(out.value.nodes.rows[j]) = module.node_model
\* The softmax weight, over the edges idx, of edge e with the scores given:
\* exp(score - max of the scores) over the sum of those exponentials.
SoftmaxWeight(scores, idx, e) ==
    LET numerator(i) ==
            <<"exp", <<"sub", scores[i],
                       Reduction(unsorted_segment_max, scores, idx)>>>>
    IN  <<"div", numerator(e),
          Reduction(unsorted_segment_sum,
                    [i \in 1..Len(scores) |-> numerator(i)], idx)>>

\* C19: SelfAttention scores edge e, per head h, by the dot product of the
\* key of e's sender and the query of e's receiver, normalises the scores by
\* softmax over the edges with e's receiver (so the weights of a node's
\* incoming edges share the divisor that is the sum of their numerators, and
\* sum to 1), and sets node j's row to the sum over j's incoming edges of
\* value of the sender times weight; only nodes differs from the input graph.
C19_SelfAttention ==
    Returned("SelfAttention") =>
        LET g == graph
            E == TotalEdges(g)
            sender(e) == g.senders.rows[e] + 1
            receiver(e) == g.receivers.rows[e] + 1
            scores(h) ==
                [e \in 1..E |->
                    <<"dot", args.node_keys.rows[sender(e)][h],
                             args.node_queries.rows[receiver(e)][h]>>]
            weighted(h) ==
                [e \in 1..E |->
                    <<"mul", args.node_values.rows[sender(e)][h],
                             SoftmaxWeight(scores(h), ReceivedBy(g, receiver(e)), e)>>]
        IN  /\ out.value = [g EXCEPT !.nodes = out.value.nodes]
            /\ out.value.edges = g.edges
            /\ Len(out.value.nodes.rows) = TotalNodes(g)
            /\ \A j \in 1..TotalNodes(g) :
                    HeadsOf(out.value.nodes, j) =
                        [h \in 1..args.num_heads |->
                            Reduction(unsorted_segment_sum, weighted(h),
                                      ReceivedBy(g, j))]

C19_Witness ==
    /\ Returned("SelfAttention")
    /\ args.num_heads = 2
    /\ ~graph.edges.is_none /\ out.value.edges = graph.edges
    /\ \E j \in 1..TotalNodes(graph) :
            /\ Cardinality(ReceivedBy(graph, j)) = 2
            /\ \E e \in ReceivedBy(graph, j) : graph.senders.rows[e] # j - 1
IsZeroRow(row) ==
    /\ row[1] = "heads"
    /\ \A h \in 1..Len(row[2]) : IsZero(row[2][h])

GATVariants == {"EdgelessGAT", "EdgeGAT"}

Isolated(g) == {j \in 1..TotalNodes(g) : ReceivedBy(g, j) = {}}

RECURSIVE HasEmptyReduction(_)
HasEmptyReduction(t) ==
    CASE t[1] = "num" -> FALSE
      [] t[1] = "in" -> FALSE
      [] t[1] = "exp" -> HasEmptyReduction(t[2])
      [] t[1] = "reduce" ->
            t[3] = {} \/ \E p \in t[3] : HasEmptyReduction(p[1])
      [] OTHER -> HasEmptyReduction(t[2]) \/ HasEmptyReduction(t[3])

\* The logit terms of the call, one per row.
LogitColumn == [i \in 1..Len(args.segment_ids) |-> args.data.rows[i][1]]

\* exp(logit - max of the logits of the row's own segment), per row.
ShiftedExp ==
    [i \in 1..Len(args.segment_ids) |->
        <<"exp", <<"sub", LogitColumn[i],
                   Reduction(unsorted_segment_max, LogitColumn,
                             Members(args.segment_ids[i]))>>>>]

\* C22: in _unsorted_segment_softmax, with segment ids in [0, num_segments),
\* every output row is computed from the maximum and the exponential sum of
\* its own segment only, of which the row is a member; no reduction over a
\* segment without members reaches an output; the shifted logits are <= 0
\* and one per non-empty segment is 0; every divisor is >= 1.
C22_OwnSegmentOnly ==
    (pc = "softmax") =>
        \A i \in 1..Len(args.segment_ids) :
            LET t == out.value.rows[i][1]
                own == Members(args.segment_ids[i])
            IN  /\ i \in own
                /\ t = <<"div", ShiftedExp[i],
                         Reduction(unsorted_segment_sum, ShiftedExp, own)>>
                /\ ~HasEmptyReduction(t)
                /\ Exponent(t[2]) <= 0
                /\ \E k \in own : Exponent(out.value.rows[k][1][2]) = 0
                /\ \A p \in ExpReduction(t[3]) : p[1] <= 0
                /\ \E p \in ExpReduction(t[3]) : p[1] = 0 /\ p[2] >= 1

\* A segment without members beside one that has three.
C22_Witness ==
    /\ pc = "softmax"
    /\ args.num_segments = 2
    /\ Members(0) = {} /\ Cardinality(Members(1)) = 3
    /\ \E i, j \in Members(1) : Logit(i) < Logit(j)
    /\ \A i \in Members(1) : ~HasEmptyReduction(out.value.rows[i][1])
\* The rows of a per-edge field taken in the order p, None staying None.
PermuteField(field, p) ==
    IF field.is_none THEN None
    ELSE Some([i \in 1..Len(field.rows) |-> field.rows[p[i]]])

\* g with the rows of edges, senders and receivers taken in the order p.
Permuted(g, p) ==
    [g EXCEPT !.edges = PermuteField(g.edges, p),
              !.senders = PermuteField(g.senders, p),
              !.receivers = PermuteField(g.receivers, p)]

\* The reorderings of the edges of g that give the same graphs again. The
\* graph an edge belongs to is read off its position and n_edge, so an edge
\* stays within the rows of its own graph; SelfAttention never reads n_edge
\* and every order is the same graph to it, as it is for a single graph.
EdgeOrders(self, g) ==
    { p \in Permutations(1..TotalEdges(g)) :
        \/ self.kind = "SelfAttention"
        \/ \A e \in 1..TotalEdges(g) :
              GraphIndex(g.n_edge)[p[e]] = GraphIndex(g.n_edge)[e] }

\* The module self called on g with its edges in the order p.
RunPermuted(self, a, g, p) ==
    CASE self.kind = "GraphNetwork" -> GraphNetwork_build(self, Permuted(g, p))
      [] self.kind = "InteractionNetwork" ->
            InteractionNetwork_build(self, Permuted(g, p))
      [] self.kind = "RelationNetwork" ->
            RelationNetwork_build(self, Permuted(g, p))
      [] self.kind = "CommNet" -> CommNet_build(self, Permuted(g, p))
      [] self.kind = "SelfAttention" ->
            SelfAttention_build(self, a.node_values, a.node_keys, a.node_queries,
                                Permuted(g, p))

EdgeOrdered ==
    {"GraphNetwork", "InteractionNetwork", "RelationNetwork", "CommNet",
     "SelfAttention"}

====
